---- MODULE Spec2Model ----
(***************************************************************************)
(* The tile-to-animation rendering pipeline of terraview: the submission   *)
(* route (app/api/animate/request/route.ts), the job store (lib/jobStore)  *)
(* and the two createAnimation implementations that live under lib/: the   *)
(* batched one (createBatchVideo + final stitch) and the day-by-day one    *)
(* (lib/animationService.ts).  External operations (HTTP requests, file    *)
(* operations, sharp, ffmpeg) are nondeterministic in their outcome.       *)
(***************************************************************************)
EXTENDS Integers, Sequences, FiniteSets, TLC

VARIABLES
    service,         \* which createAnimation the build links: "batched" | "daily"
    jobs,            \* the job store: id -> AnimationJob (status "absent": no entry)
    setLog,          \* history: the statuses handed to jobs.set, per id, in order
    resp,            \* the HTTP answer of the submission that drew this id
    req,             \* the parameters createAnimation was called with
    pc,              \* the await createAnimation is suspended at
    loc,             \* createAnimation's loop variables: row, col, dateIndex
    dl,              \* downloadPromises of the current (batch, date): tile -> promise
    fs,              \* the paths that exist under TEMP_DIR
    batchClipPaths,  \* batchClipPaths[row][col], with each clip's frame count
    artifact,        \* public/animations/<jobId>.gif
    outcome,         \* the promise createAnimation returned
    cleanupLog,      \* what the finally block logged
    tz,              \* the time zone of the server process (Date's local time)
    content,         \* what each frame and clip file holds: the dates of its frames
    probe,           \* the last call of a pure helper: its arguments and result
    gee              \* lib/earthEngineService: geePromise and the callers of initializeGee

\* what no step of the route or of a run changes
static == <<service, tz, probe, gee>>

vars == <<service, jobs, setLog, resp, req, pc, loc, dl, fs, batchClipPaths,
          artifact, outcome, cleanupLog, tz, content, probe, gee>>

----------------------------------------------------------------------------
(* Bounds of the model *)

\* largest (bottomRight - topLeft) tile index difference of a submitted box
MaxSpan == 2
\* largest (endDate - startDate) in days of a submitted range
MaxDaySpan == 2
\* largest number of tile downloads one (batch, date) may have in flight
MaxInFlight == 4
\* const BATCH_GRID_DIMENSION = 16
BATCH_GRID_DIMENSION == 16
\* BATCH_GRID_DIMENSION scaled to the model's grids
BatchDim == 2
\* largest number of calls of initializeGee
MaxCalls == 3

JobIds == {"j1", "j2"}
\* the ids that submit a job under Spec
SoloIds == {"j1"}
Services == {"batched", "daily"}
\* tile indices of the box's top-left corner (lonLatToTile(minLon, maxLat))
TopLefts == {[x |-> 3, y |-> 5]}
\* the day startDate parses to, as a day number
StartDays == {10}

----------------------------------------------------------------------------
(* Values *)

NoJob == [status |-> "absent", url |-> "", error |-> ""]
NoReq == [shape |-> "none", topLeft |-> [x |-> 0, y |-> 0],
          bottomRight |-> [x |-> 0, y |-> 0], startDay |-> 0, endDay |-> 0]
NoLoc == [row |-> 0, col |-> 0, dateIndex |-> 0]
NoArtifact == [exists |-> FALSE, frames |-> 0, grid |-> << >>]
Pending == [status |-> "pending", file |-> "none", reason |-> ""]
NoDownloads == [t \in {} |-> Pending]
NoClips == [b \in {} |-> 0]

Terminal(s) == s \in {"complete", "failed"}

\* `/animations/${jobId}.gif`
AnimationPath(jobId) == <<"/animations", jobId, ".gif">>

----------------------------------------------------------------------------
(* Pure helpers of the pipeline *)

\* Array.from({ length: n }, (_, i) => first + i): a negative length is 0
ArrayFrom(n, first) == [i \in 1..(IF n < 0 THEN 0 ELSE n) |-> first + (i - 1)]
\* variant: the quotient is rounded down
Ceil_RoundsDown(a, b) == a \div b

\* Math.ceil(a / b) for a >= 0, b > 0
Ceil(a, b) == (a + b - 1) \div b

\* Array.prototype.slice(from, to), 0-based, to exclusive, clamped to the array
Slice(s, from, to) ==
    LET hi == IF to > Len(s) THEN Len(s) ELSE to
    IN  IF from >= hi THEN << >> ELSE [i \in 1..(hi - from) |-> s[from + i]]

Elems(s) == {s[i] : i \in 1..Len(s)}
\* const ZOOM_LEVEL = 9
ZOOM_LEVEL == 9

RECURSIVE Pow2(_)
\* Math.pow(2, zoom)
Pow2(n) == IF n = 0 THEN 1 ELSE 2 * Pow2(n - 1)

\* longitudes and latitudes in whole degrees: inside the map, on its edges,
\* beyond the latitude the projection covers, and out of range
Longitudes == {0 - 181, 0 - 180, 0 - 1, 0, 179, 180, 181}
Latitudes == {0 - 89, 0 - 86, 0 - 85, 0 - 60, 0, 60, 85, 86, 89, 90}
Zooms == 0..ZOOM_LEVEL

\* Math.floor(512 * (1 - Math.log(Math.tan(latRad) + 1 / Math.cos(latRad))
\* / Math.PI) / 2) in IEEE double arithmetic: the tile row at zoom 9
MercatorRow9(lat) ==
    CASE lat = 0 - 89 -> 642
      [] lat = 0 - 86 -> 529
      [] lat = 0 - 85 -> 511
      [] lat = 0 - 60 -> 363
      [] lat = 0 -> 256
      [] lat = 60 -> 148
      [] lat = 85 -> 0
      [] lat = 86 -> 0 - 18
      [] lat = 89 -> 0 - 131
      [] lat = 90 -> 0 - 2843

\* lonLatToTile: x = floor(n * (lon + 180) / 360) and y = floor(n * f(lat))
\* with n = 2^zoom; floor(n * f) is the zoom 9 row floor(512 * f) divided by
\* 2^(9 - zoom) and floored (\div floors)
lonLatToTile(lon, lat, zoom) ==
    [x |-> (Pow2(zoom) * (lon + 180)) \div 360,
     y |-> MercatorRow9(lat) \div Pow2(ZOOM_LEVEL - zoom)]
\* the 512 of the frame size, of the offsets and of the blank tile
TileSide == 512
\* the side of the image a tile request is answered with: the file is written
\* as received
ImageSides == {TileSide \div 2, TileSide}

\* frameWidth / frameHeight
frameWidth(xs) == Len(xs) * TileSide
frameHeight(ys) == Len(ys) * TileSide

\* compositeOperations: one input per (x, y) at left = (x - tileXCoords[0]) * 512
\* and top = (y - tileYCoords[0]) * 512; side is the side of the image in the
\* file, 512 for a blank tile
compositeOperations(xs, ys, blank, side) ==
    {[tile |-> <<x, y>>,
      left |-> (x - xs[1]) * TileSide,
      top |-> (y - ys[1]) * TileSide,
      side |-> IF <<x, y>> \in blank THEN TileSide ELSE side] :
        x \in Elems(xs), y \in Elems(ys)}

\* A time zone: its UTC offset in hours before and after one transition, and
\* the instant (hours since day 0, UTC) of the transition.  "spring" puts the
\* clock forward (-5 to -4) at 07:00 UTC of day 11.
Zones ==
    {[name |-> "UTC", before |-> 0, after |-> 0, at |-> 0],
     [name |-> "spring", before |-> 0 - 5, after |-> 0 - 4, at |-> 11 * 24 + 7]}

Offset(z, t) == IF t < z.at THEN z.before ELSE z.after
\* new Date("YYYY-MM-DD"): midnight UTC of the day, in hours
ParseDate(day) == 24 * day
\* toISOString().split('T')[0]: the UTC day of the instant
IsoDay(t) == t \div 24
\* setDate(getDate() + 1): one day later on the local clock, back to an instant
\* (a local time that exists twice or not at all is read with the offset
\* before the transition)
SetNextLocalDay(z, t) ==
    LET wall == t + Offset(z, t) + 24
        t1 == wall - z.before
        t2 == wall - z.after
    IN  IF t1 < z.at THEN t1 ELSE IF t2 >= z.at THEN t2 ELSE t1

RECURSIVE DatesFrom(_, _, _)
\* the while loop: push the UTC day, step one local day, while currentDate <= end
DatesFrom(z, t, end) ==
    IF t <= end THEN <<IsoDay(t)>> \o DatesFrom(z, SetNextLocalDay(z, t), end)
    ELSE << >>

\* getDatesInRange, run in time zone z
getDatesInRange(z, startDay, endDay) ==
    DatesFrom(z, ParseDate(startDay), ParseDate(endDay))

fullTileXCoords(rq) ==
    ArrayFrom(rq.bottomRight.x - rq.topLeft.x + 1, rq.topLeft.x)
fullTileYCoords(rq) ==
    ArrayFrom(rq.bottomRight.y - rq.topLeft.y + 1, rq.topLeft.y)

numBatchCols(rq) == Ceil(Len(fullTileXCoords(rq)), BatchDim)
numBatchRows(rq) == Ceil(Len(fullTileYCoords(rq)), BatchDim)
\* variant: each batch column takes one tile more than the batch dimension
batchXCoords_Overlap(rq, col) ==
    Slice(fullTileXCoords(rq), col * BatchDim, col * BatchDim + BatchDim + 1)

batchXCoords(rq, col) ==
    Slice(fullTileXCoords(rq), col * BatchDim, col * BatchDim + BatchDim)
batchYCoords(rq, row) ==
    Slice(fullTileYCoords(rq), row * BatchDim, row * BatchDim + BatchDim)

\* the tile x/y lists one round of downloads and one composite range over
tileXCoords(svc, rq, col) ==
    IF svc = "batched" THEN batchXCoords(rq, col) ELSE fullTileXCoords(rq)
tileYCoords(svc, rq, row) ==
    IF svc = "batched" THEN batchYCoords(rq, row) ELSE fullTileYCoords(rq)

Tiles(svc, rq, l) ==
    Elems(tileXCoords(svc, rq, l.col)) \X Elems(tileYCoords(svc, rq, l.row))

Dates(rq) == getDatesInRange(tz, rq.startDay, rq.endDay)

----------------------------------------------------------------------------
(* Paths under TEMP_DIR *)
\* variant: every job works in the same directory, TEMP_DIR without the job id
jobDir_Shared(j) == << <<"tmp", "job">> >>

jobDir(j) == << <<"tmp", j>> >>
batchJobDir(j, row, col) == Append(jobDir(j), <<"batch", row, col>>)
\* the directory frames are written to: the batch's, or the job's (daily)
frameDir(svc, j, l) ==
    IF svc = "batched" THEN batchJobDir(j, l.row, l.col) ELSE jobDir(j)
dailyTileDir(svc, j, l, date) == Append(frameDir(svc, j, l), <<"date", date>>)
imagePath(svc, j, l, date, t) ==
    Append(dailyTileDir(svc, j, l, date), <<"tile", t[1], t[2]>>)
\* variant: every frame of a batch is written to the same file, frame 0
framePath_Unindexed(svc, j, l, dateIndex) ==
    Append(frameDir(svc, j, l), <<"frame", 0>>)

framePath(svc, j, l, dateIndex) ==
    Append(frameDir(svc, j, l), <<"frame", dateIndex>>)
batchClipPath(j, row, col) ==
    Append(batchJobDir(j, row, col), <<"batch_clip", 0, 0>>)

IsPrefix(p, q) == Len(p) <= Len(q) /\ SubSeq(q, 1, Len(p)) = p
\* variant: the removal without recursive: true, only the directory entry goes
RmRf_NotRecursive(files, dir) == files \ {dir}

\* fs.rm(dir, { recursive: true, force: true })
RmRf(files, dir) == {p \in files : ~IsPrefix(dir, p)}
\* fs.mkdir(dir, { recursive: true }): the parents exist already
Mkdir(files, dir) == files \cup {dir}

IsFrame(p) == Len(p) > 0 /\ p[Len(p)][1] = "frame"
\* the frames ffmpeg's frame_%04d.jpg input pattern finds in a directory
FramesIn(files, dir) ==
    {p \in files : Len(p) = Len(dir) + 1 /\ IsPrefix(dir, p) /\ IsFrame(p)}

NoContent == [p \in {} |-> << >>]
\* the contents that remain when only the paths in files remain
Restrict(c, files) == [p \in DOMAIN c \cap files |-> c[p]]
\* a file is written (again): its content is replaced
WriteFile(c, path, data) ==
    [p \in DOMAIN c \cup {path} |-> IF p = path THEN data ELSE c[p]]

RECURSIVE ReadFrames(_, _, _, _)
\* what ffmpeg reads through <dir>/frame_%04d.jpg: the frames numbered
\* from, from + 1, ... as long as the file exists
ReadFrames(files, c, dir, from) ==
    LET p == Append(dir, <<"frame", from>>)
    IN  IF p \in files THEN c[p] \o ReadFrames(files, c, dir, from + 1)
        ELSE << >>

----------------------------------------------------------------------------
(* The job store *)

\* Map.prototype.set: the entry of the key is replaced, whatever it held
JobsSet(store, jobId, job) == [store EXCEPT ![jobId] = job]

\* jobs.set(jobId, { status: 'processing' })
ProcessingJob == [status |-> "processing", url |-> "", error |-> ""]
\* jobs.set(jobId, { status: 'complete', url: animationPath })
CompleteJob(jobId) ==
    [status |-> "complete", url |-> AnimationPath(jobId), error |-> ""]
\* jobs.set(jobId, { status: 'failed', error: (error as Error).message })
FailedJob(message) == [status |-> "failed", url |-> "", error |-> message]

----------------------------------------------------------------------------
(* The outcomes of external operations *)

\* what a tile request can end as: 2xx, 404, another non-2xx status, the
\* 30 s AbortSignal timeout, a transport error
FetchOutcomes == {"ok", "404", "5xx", "timeout", "neterr"}
\* whether the first and the second file write of one downloadImage call succeed
WriteOutcomes == BOOLEAN \X BOOLEAN

\* messages of the errors the libraries reject with
ErrMkdir == "EACCES: permission denied, mkdir"
ErrRm == "EBUSY: resource busy or locked, rm"
ErrNotIterable == "boundingBox is not iterable"
ErrMissingInput == "Input file is missing"
ErrSharpWrite == "sharp: unable to write output file"
ErrFfmpeg == "ffmpeg exited with code 1"

\* what downloadImage throws: the error of the request (a non-2xx status other
\* than 404, the timeout, a transport error) or the error of a file write
ErrFetch == "Failed to download"
ErrWrite == "ENOSPC: no space left on device, write"

Fulfilled(file) == [status |-> "fulfilled", file |-> file, reason |-> ""]
Rejected(reason) == [status |-> "rejected", file |-> "none", reason |-> reason]

\* downloadImage of the batched service: every failure ends in the catch block,
\* which writes a blank tile; only a failure of that write rejects
DownloadImageBatched(fetch, w) ==
    IF fetch = "ok"
    THEN IF w[1] THEN Fulfilled("real")
         ELSE IF w[2] THEN Fulfilled("blank") ELSE Rejected(ErrWrite)
    ELSE IF fetch = "404"
    THEN IF w[1] THEN Fulfilled("blank")
         ELSE IF w[2] THEN Fulfilled("blank") ELSE Rejected(ErrWrite)
    ELSE IF w[1] THEN Fulfilled("blank") ELSE Rejected(ErrWrite)

\* downloadImage of the day-by-day service: a blank tile on 404 only, every
\* other failure is logged and re-thrown
DownloadImageDaily(fetch, w) ==
    IF fetch = "ok"
    THEN IF w[1] THEN Fulfilled("real") ELSE Rejected(ErrWrite)
    ELSE IF fetch = "404"
    THEN IF w[1] THEN Fulfilled("blank") ELSE Rejected(ErrWrite)
    ELSE Rejected(ErrFetch)

downloadImage(svc, fetch, w) ==
    IF svc = "batched" THEN DownloadImageBatched(fetch, w)
    ELSE DownloadImageDaily(fetch, w)

----------------------------------------------------------------------------
(* The submission route: POST /api/animate/request *)

ArrayRequests ==
    {[shape |-> "array", topLeft |-> tl,
      bottomRight |-> [x |-> tl.x + sx, y |-> tl.y + sy],
      startDay |-> s, endDay |-> s + ds] :
        tl \in TopLefts, sx \in -1..MaxSpan, sy \in -1..MaxSpan,
        s \in StartDays, ds \in {-1, 0, 1, MaxDaySpan}}

\* a truthy boundingBox that is no array (a number): it passes the route's check
ScalarRequests ==
    {[shape |-> "scalar", topLeft |-> tl, bottomRight |-> tl,
      startDay |-> s, endDay |-> s] : tl \in TopLefts, s \in StartDays}

InFlight(svc, rq) ==
    Len(tileXCoords(svc, rq, 0)) * Len(tileYCoords(svc, rq, 0))

Requests(svc) ==
    {rq \in ArrayRequests \cup ScalarRequests : InFlight(svc, rq) <= MaxInFlight}

\* the box is inverted when its tile rectangle has bottomRight before topLeft
InvertedBox(rq) ==
    rq.bottomRight.x < rq.topLeft.x \/ rq.bottomRight.y < rq.topLeft.y
MalformedBox(rq) == rq.shape # "array" \/ InvertedBox(rq)
InvertedDates(rq) == rq.endDay < rq.startDay

Fresh(j) == resp[j] = "none"

\* !boundingBox || !startDate || !endDate: 400, nothing else happens
PostMissing(j) ==
    /\ Fresh(j)
    /\ resp' = [resp EXCEPT ![j] = "400"]
    /\ UNCHANGED <<static, content, jobs, setLog, req, pc, loc, dl, fs, batchClipPaths,
                   artifact, outcome, cleanupLog>>

\* request.json() throws: the route's catch answers 500
PostUnparsable(j) ==
    /\ Fresh(j)
    /\ resp' = [resp EXCEPT ![j] = "500"]
    /\ UNCHANGED <<static, content, jobs, setLog, req, pc, loc, dl, fs, batchClipPaths,
                   artifact, outcome, cleanupLog>>

\* variant: the route starts the run and answers without setting the record
PostAccepted_NoRecord(j, rq) ==
    /\ Fresh(j)
    /\ req' = [req EXCEPT ![j] = rq]
    /\ pc' = [pc EXCEPT ![j] = "mkdirJob"]
    /\ outcome' = [outcome EXCEPT ![j] = "pending"]
    /\ resp' = [resp EXCEPT ![j] = "200"]
    /\ UNCHANGED <<static, content, jobs, setLog, loc, dl, fs, batchClipPaths, artifact,
                   cleanupLog>>

\* the three fields are present: the processing record is set, createAnimation is
\* called without await (it runs up to its first await, fs.mkdir(jobDir)) and the
\* job id is returned
PostAccepted(j, rq) ==
    /\ Fresh(j)
    /\ jobs' = JobsSet(jobs, j, ProcessingJob)
    /\ setLog' = [setLog EXCEPT ![j] = Append(@, "processing")]
    /\ req' = [req EXCEPT ![j] = rq]
    /\ pc' = [pc EXCEPT ![j] = "mkdirJob"]
    /\ outcome' = [outcome EXCEPT ![j] = "pending"]
    /\ resp' = [resp EXCEPT ![j] = "200"]
    /\ UNCHANGED <<static, content, loc, dl, fs, batchClipPaths, artifact, cleanupLog>>

POST(j) ==
    \/ PostMissing(j)
    \/ PostUnparsable(j)
    \/ \E rq \in Requests(service) : PostAccepted(j, rq)

----------------------------------------------------------------------------
(* createAnimation: one action per await, with the synchronous code up to the *)
(* next await                                                               *)

At(j, where) == pc[j] = where
\* variant: the catch block marks every job still processing as failed
CatchBlock_FailsProcessing(j, message) ==
    /\ jobs' = [k \in JobIds |->
                   IF jobs[k].status = "processing" THEN FailedJob(message)
                   ELSE jobs[k]]
    /\ setLog' = [k \in JobIds |->
                     IF jobs[k].status = "processing"
                     THEN Append(setLog[k], "failed") ELSE setLog[k]]
    /\ pc' = [pc EXCEPT ![j] = "cleanup"]

\* the catch block: the failure is recorded, then the finally block's fs.rm is
\* awaited
CatchBlock(j, message) ==
    /\ jobs' = JobsSet(jobs, j, FailedJob(message))
    /\ setLog' = [setLog EXCEPT ![j] = Append(@, "failed")]
    /\ pc' = [pc EXCEPT ![j] = "cleanup"]

\* where the run goes once the job directory exists
AfterMkdirJob(svc, rq) ==
    IF svc = "batched"
    THEN IF numBatchRows(rq) > 0 /\ numBatchCols(rq) > 0
         THEN "mkdirBatch" ELSE "mkdirOut"
    ELSE IF Len(Dates(rq)) > 0 THEN "mkdirDay" ELSE "mkdirOut"

\* await fs.mkdir(jobDir); then the plan is computed (the destructuring of a
\* boundingBox that is no array throws)
MkdirJob(j, ok) ==
    /\ At(j, "mkdirJob")
    /\ IF ~ok
       THEN /\ CatchBlock(j, ErrMkdir)
            /\ UNCHANGED <<fs, loc>>
       ELSE /\ fs' = Mkdir(fs, jobDir(j))
            /\ IF req[j].shape # "array"
               THEN /\ CatchBlock(j, ErrNotIterable)
                    /\ UNCHANGED loc
               ELSE /\ pc' = [pc EXCEPT ![j] = AfterMkdirJob(service, req[j])]
                    /\ loc' = [loc EXCEPT ![j] = NoLoc]
                    /\ UNCHANGED <<jobs, setLog>>
    /\ UNCHANGED <<static, content, resp, req, dl, batchClipPaths, artifact, outcome,
                   cleanupLog>>

\* await fs.mkdir(batchJobDir); createBatchVideo starts its date loop
MkdirBatch(j, ok) ==
    /\ At(j, "mkdirBatch")
    /\ IF ~ok
       THEN /\ CatchBlock(j, ErrMkdir)
            /\ UNCHANGED <<fs, loc>>
       ELSE /\ fs' = Mkdir(fs, batchJobDir(j, loc[j].row, loc[j].col))
            /\ loc' = [loc EXCEPT ![j].dateIndex = 0]
            /\ pc' = [pc EXCEPT ![j] =
                        IF Len(Dates(req[j])) > 0 THEN "mkdirDay" ELSE "encode"]
            /\ UNCHANGED <<jobs, setLog>>
    /\ UNCHANGED <<static, content, resp, req, dl, batchClipPaths, artifact, outcome,
                   cleanupLog>>

CurrentDate(j) == Dates(req[j])[loc[j].dateIndex + 1]
CurrentTiles(j) == Tiles(service, req[j], loc[j])

\* await fs.mkdir(dailyTileDir); every downloadImage of the date is called and
\* Promise.allSettled is awaited
MkdirDay(j, ok) ==
    /\ At(j, "mkdirDay")
    /\ IF ~ok
       THEN /\ CatchBlock(j, ErrMkdir)
            /\ UNCHANGED <<fs, dl>>
       ELSE /\ fs' = Mkdir(fs, dailyTileDir(service, j, loc[j], CurrentDate(j)))
            /\ dl' = [dl EXCEPT ![j] = [t \in CurrentTiles(j) |-> Pending]]
            /\ pc' = [pc EXCEPT ![j] = "download"]
            /\ UNCHANGED <<jobs, setLog>>
    /\ UNCHANGED <<static, content, resp, req, loc, batchClipPaths, artifact, outcome,
                   cleanupLog>>

\* one downloadImage call settles; its file, if it wrote one, is at imagePath
TileSettles(j, t, fetch, w) ==
    /\ At(j, "download")
    /\ t \in DOMAIN dl[j]
    /\ dl[j][t] = Pending
    /\ LET r == downloadImage(service, fetch, w)
       IN  /\ dl' = [dl EXCEPT ![j][t] = r]
           /\ fs' = IF r.file # "none"
                    THEN fs \cup {imagePath(service, j, loc[j], CurrentDate(j), t)}
                    ELSE fs
    /\ UNCHANGED <<static, content, jobs, setLog, resp, req, pc, loc, batchClipPaths,
                   artifact, outcome, cleanupLog>>

\* variant: the join waits until every download has fulfilled
AllSettled_AllFulfilled(promises) ==
    \A t \in DOMAIN promises : promises[t].status = "fulfilled"
\* variant: the join of Promise.all, over as soon as one download has rejected
AllSettled_UntilRejection(promises) ==
    \/ \A t \in DOMAIN promises : promises[t] # Pending
    \/ \E t \in DOMAIN promises : promises[t].status = "rejected"

\* Promise.allSettled(downloadPromises) resolves once no promise is pending
AllSettled(promises) == \A t \in DOMAIN promises : promises[t] # Pending

\* the await of Promise.allSettled returns; the composite operations are built
\* and sharp's composite(...).toFile(framePath) is started
StartComposite(j) ==
    /\ At(j, "download")
    /\ AllSettled(dl[j])
    /\ pc' = [pc EXCEPT ![j] = "composite"]
    /\ UNCHANGED <<static, content, jobs, setLog, resp, req, loc, dl, fs, batchClipPaths,
                   artifact, outcome, cleanupLog>>

\* the inputs of the composite: one tile path per (x, y) of the ranges
CompositeInputs(j) ==
    {imagePath(service, j, loc[j], CurrentDate(j), t) : t \in CurrentTiles(j)}
\* variant: a date whose composite fails is skipped, the run goes on without
\* its frame
Composite_SwallowsError(j, ok) ==
    /\ At(j, "composite")
    /\ IF ~(CompositeInputs(j) \subseteq fs) \/ ~ok
       THEN UNCHANGED <<fs, content>>
       ELSE /\ fs' = fs \cup {framePath(service, j, loc[j], loc[j].dateIndex)}
            /\ content' = WriteFile(content,
                               framePath(service, j, loc[j], loc[j].dateIndex),
                               <<CurrentDate(j)>>)
    /\ pc' = [pc EXCEPT ![j] = "rmDay"]
    /\ UNCHANGED <<static, jobs, setLog, resp, req, loc, dl, batchClipPaths,
                   artifact, outcome, cleanupLog>>

\* sharp rejects when an input file is missing or the frame cannot be written
Composite(j, ok) ==
    /\ At(j, "composite")
    /\ IF ~(CompositeInputs(j) \subseteq fs)
       THEN /\ CatchBlock(j, ErrMissingInput)
            /\ UNCHANGED <<fs, content>>
       ELSE IF ~ok
       THEN /\ CatchBlock(j, ErrSharpWrite)
            /\ UNCHANGED <<fs, content>>
       ELSE /\ fs' = fs \cup {framePath(service, j, loc[j], loc[j].dateIndex)}
            /\ content' = WriteFile(content,
                               framePath(service, j, loc[j], loc[j].dateIndex),
                               <<CurrentDate(j)>>)
            /\ pc' = [pc EXCEPT ![j] = "rmDay"]
            /\ UNCHANGED <<jobs, setLog>>
    /\ UNCHANGED <<static, resp, req, loc, dl, batchClipPaths, artifact, outcome,
                   cleanupLog>>

\* where the date loop goes after a date: the next date, or past the loop
AfterDate(svc, rq, l) ==
    IF l.dateIndex + 1 < Len(Dates(rq)) THEN "mkdirDay"
    ELSE IF svc = "batched" THEN "encode" ELSE "mkdirOut"
\* variant: the date's tile directory is left in place
RmDay_Skipped(j, ok) ==
    /\ At(j, "rmDay")
    /\ IF ~ok
       THEN /\ CatchBlock(j, ErrRm)
            /\ UNCHANGED <<loc, dl>>
       ELSE /\ dl' = [dl EXCEPT ![j] = NoDownloads]
            /\ pc' = [pc EXCEPT ![j] = AfterDate(service, req[j], loc[j])]
            /\ loc' = [loc EXCEPT ![j].dateIndex =
                         IF @ + 1 < Len(Dates(req[j])) THEN @ + 1 ELSE @]
            /\ UNCHANGED <<jobs, setLog>>
    /\ UNCHANGED <<static, fs, content, resp, req, batchClipPaths, artifact,
                   outcome, cleanupLog>>

\* await fs.rm(dailyTileDir, { recursive: true, force: true })
RmDay(j, ok) ==
    /\ At(j, "rmDay")
    /\ IF ~ok
       THEN /\ CatchBlock(j, ErrRm)
            /\ UNCHANGED <<fs, content, loc, dl>>
       ELSE /\ fs' = RmRf(fs, dailyTileDir(service, j, loc[j], CurrentDate(j)))
            /\ content' = Restrict(content, fs')
            /\ dl' = [dl EXCEPT ![j] = NoDownloads]
            /\ pc' = [pc EXCEPT ![j] = AfterDate(service, req[j], loc[j])]
            /\ loc' = [loc EXCEPT ![j].dateIndex =
                         IF @ + 1 < Len(Dates(req[j])) THEN @ + 1 ELSE @]
            /\ UNCHANGED <<jobs, setLog>>
    /\ UNCHANGED <<static, resp, req, batchClipPaths, artifact, outcome,
                   cleanupLog>>

\* the batch loops' next (row, col), row-major; none after the last batch
HasNextBatch(rq, l) ==
    l.col + 1 < numBatchCols(rq) \/ l.row + 1 < numBatchRows(rq)
\* variant: the batches are walked column by column
NextBatch_ColumnMajor(rq, l) ==
    IF l.row + 1 < numBatchRows(rq)
    THEN [row |-> l.row + 1, col |-> l.col, dateIndex |-> 0]
    ELSE [row |-> 0, col |-> l.col + 1, dateIndex |-> 0]

NextBatch(rq, l) ==
    IF l.col + 1 < numBatchCols(rq)
    THEN [row |-> l.row, col |-> l.col + 1, dateIndex |-> 0]
    ELSE [row |-> l.row + 1, col |-> 0, dateIndex |-> 0]

\* variant: the encoder's error event resolves the promise, the batch loop goes on
Encode_SwallowsError(j, ok) ==
    /\ At(j, "encode")
    /\ IF HasNextBatch(req[j], loc[j])
       THEN /\ loc' = [loc EXCEPT ![j] = NextBatch(req[j], @)]
            /\ pc' = [pc EXCEPT ![j] = "mkdirBatch"]
       ELSE /\ pc' = [pc EXCEPT ![j] = "mkdirOut"]
            /\ UNCHANGED loc
    /\ IF ok /\ FramesIn(fs, batchJobDir(j, loc[j].row, loc[j].col)) # {}
       THEN /\ fs' = fs \cup {batchClipPath(j, loc[j].row, loc[j].col)}
            /\ content' = WriteFile(content,
                               batchClipPath(j, loc[j].row, loc[j].col),
                               ReadFrames(fs, content,
                                   batchJobDir(j, loc[j].row, loc[j].col), 0))
            /\ batchClipPaths' = [batchClipPaths EXCEPT ![j] =
                   [b \in DOMAIN @ \cup {<<loc[j].row, loc[j].col>>} |->
                       IF b = <<loc[j].row, loc[j].col>>
                       THEN Cardinality(FramesIn(fs,
                                batchJobDir(j, loc[j].row, loc[j].col)))
                       ELSE @[b]]]
       ELSE UNCHANGED <<fs, content, batchClipPaths>>
    /\ UNCHANGED <<static, jobs, setLog, resp, req, dl, artifact, outcome,
                   cleanupLog>>

\* the batch's ffmpeg run over frame_%04d.jpg: it ends with a clip of the frames
\* found, or with an error (always so when there is no frame to read)
Encode(j, ok) ==
    /\ At(j, "encode")
    /\ LET dir == batchJobDir(j, loc[j].row, loc[j].col)
           frames == FramesIn(fs, dir)
       IN  IF ~ok \/ frames = {}
           THEN /\ CatchBlock(j, ErrFfmpeg)
                /\ UNCHANGED <<fs, content, loc, batchClipPaths>>
           ELSE /\ fs' = fs \cup {batchClipPath(j, loc[j].row, loc[j].col)}
                /\ content' = WriteFile(content,
                                   batchClipPath(j, loc[j].row, loc[j].col),
                                   ReadFrames(fs, content, dir, 0))
                /\ batchClipPaths' = [batchClipPaths EXCEPT ![j] =
                       [b \in DOMAIN @ \cup {<<loc[j].row, loc[j].col>>} |->
                           IF b = <<loc[j].row, loc[j].col>>
                           THEN Len(ReadFrames(fs, content, dir, 0))
                           ELSE @[b]]]
                /\ IF HasNextBatch(req[j], loc[j])
                   THEN /\ loc' = [loc EXCEPT ![j] = NextBatch(req[j], @)]
                        /\ pc' = [pc EXCEPT ![j] = "mkdirBatch"]
                   ELSE /\ pc' = [pc EXCEPT ![j] = "mkdirOut"]
                        /\ UNCHANGED loc
                /\ UNCHANGED <<jobs, setLog>>
    /\ UNCHANGED <<static, resp, req, dl, artifact, outcome, cleanupLog>>

\* variant: the complete record is set before the final ffmpeg run
MkdirOut_SetsComplete(j, ok) ==
    /\ At(j, "mkdirOut")
    /\ IF ~ok
       THEN CatchBlock(j, ErrMkdir)
       ELSE /\ jobs' = JobsSet(jobs, j, CompleteJob(j))
            /\ setLog' = [setLog EXCEPT ![j] = Append(@, "complete")]
            /\ pc' = [pc EXCEPT ![j] = "stitch"]
    /\ UNCHANGED <<static, content, resp, req, loc, dl, fs, batchClipPaths, artifact,
                   outcome, cleanupLog>>

\* await fs.mkdir(path.dirname(animationOutputPath), { recursive: true })
MkdirOut(j, ok) ==
    /\ At(j, "mkdirOut")
    /\ IF ~ok
       THEN CatchBlock(j, ErrMkdir)
       ELSE /\ pc' = [pc EXCEPT ![j] = "stitch"]
            /\ UNCHANGED <<jobs, setLog>>
    /\ UNCHANGED <<static, content, resp, req, loc, dl, fs, batchClipPaths, artifact,
                   outcome, cleanupLog>>
RECURSIVE Flat_ColumnMajor(_)
\* variant: the clips are listed column by column
Flat_ColumnMajor(S) ==
    IF S = {} THEN << >>
    ELSE LET first == CHOOSE b \in S : \A o \in S :
                          b[2] < o[2] \/ (b[2] = o[2] /\ b[1] <= o[1])
         IN  <<first>> \o Flat_ColumnMajor(S \ {first})

RECURSIVE Flat(_)
\* batchClipPaths.flat(): the recorded clips row after row, each row by column;
\* S is the set of <<row, col>> that have a clip recorded
Flat(S) ==
    IF S = {} THEN << >>
    ELSE LET first == CHOOSE b \in S : \A o \in S :
                          b[1] < o[1] \/ (b[1] = o[1] /\ b[2] <= o[2])
         IN  <<first>> \o Flat(S \ {first})

\* the input labels [inputIndex:v] pushed for one row: inputIndex has been
\* incremented once per column of every earlier row
RowLabels(cols, row) == [c \in 1..cols |-> row * cols + (c - 1)]

\* finalComplexFilter: per row the labels of its inputs and hstack=<cols> into
\* [row<r>], then the row labels and vstack=<rows> into [v]
finalComplexFilter(rows, cols) ==
    [hstack |-> [r \in 1..rows |->
                    [inputs |-> RowLabels(cols, r - 1), n |-> cols, out |-> r - 1]],
     vstack |-> [inputs |-> [r \in 1..rows |-> r - 1], n |-> rows]]

\* every stack request of the filter: its kind, its input count and its inputs
StackRequests(filter) ==
    {[kind |-> "hstack", n |-> filter.hstack[r].n, inputs |-> filter.hstack[r].inputs] :
        r \in DOMAIN filter.hstack}
    \cup {[kind |-> "vstack", n |-> filter.vstack.n, inputs |-> filter.vstack.inputs]}

\* the grid the filter builds from the inputs: the cell at row r, column c
\* (from 0) shows the input that the c-th label of the hstack feeding the r-th
\* input of the vstack names
StitchGrid(inputs, filter) ==
    [cell \in {<<r, c>> \in (0..(filter.vstack.n - 1)) \X (0..(Len(inputs) - 1)) :
                  /\ r + 1 \in DOMAIN filter.vstack.inputs
                  /\ filter.vstack.inputs[r + 1] + 1 \in DOMAIN filter.hstack
                  /\ c + 1 \in DOMAIN filter.hstack[filter.vstack.inputs[r + 1] + 1].inputs} |->
        LET label == filter.hstack[filter.vstack.inputs[cell[1] + 1] + 1].inputs[cell[2] + 1]
        IN  IF label + 1 \in DOMAIN inputs THEN inputs[label + 1] ELSE <<0 - 1, 0 - 1>>]

\* what the final run of a job is given: the clips as ffmpeg inputs and the
\* filter (batched), or nothing but the frame sequence (daily)
StitchedGrid(svc, j) ==
    IF svc = "batched"
    THEN StitchGrid(Flat(DOMAIN batchClipPaths[j]),
                    finalComplexFilter(numBatchRows(req[j]), numBatchCols(req[j])))
    ELSE << >>

Max(S) == CHOOSE m \in S : \A n \in S : n <= m

\* the frames the final ffmpeg run has to read: per input, its frame count
\* (batched: one input per recorded clip; daily: the job's frame sequence)
StitchInputs(svc, j) ==
    IF svc = "batched"
    THEN {batchClipPaths[j][b] : b \in DOMAIN batchClipPaths[j]}
    ELSE IF FramesIn(fs, jobDir(j)) = {} THEN {}
         ELSE {Cardinality(FramesIn(fs, jobDir(j)))}

\* the success path after the final ffmpeg run: the complete record is set
SetComplete(j) ==
    /\ jobs' = JobsSet(jobs, j, CompleteJob(j))
    /\ setLog' = [setLog EXCEPT ![j] = Append(@, "complete")]
    /\ pc' = [pc EXCEPT ![j] = "cleanup"]

\* variant: the final run's error event resolves the promise too
Stitch_SwallowsError(j, ok) ==
    /\ At(j, "stitch")
    /\ IF ~ok \/ StitchInputs(service, j) = {}
       THEN UNCHANGED artifact
       ELSE artifact' = [artifact EXCEPT ![j] =
                   [exists |-> TRUE, frames |-> Max(StitchInputs(service, j)),
                    grid |-> StitchedGrid(service, j)]]
    /\ SetComplete(j)
    /\ UNCHANGED <<static, content, resp, req, loc, dl, fs, batchClipPaths, outcome,
                   cleanupLog>>

\* the final ffmpeg run: it writes the artifact and the job is set complete, or
\* it ends with an error (always so when it has no input)
Stitch(j, ok) ==
    /\ At(j, "stitch")
    /\ IF ~ok \/ StitchInputs(service, j) = {}
       THEN /\ CatchBlock(j, ErrFfmpeg)
            /\ UNCHANGED artifact
       ELSE /\ artifact' = [artifact EXCEPT ![j] =
                   [exists |-> TRUE, frames |-> Max(StitchInputs(service, j)),
                    grid |-> StitchedGrid(service, j)]]
            /\ SetComplete(j)
    /\ UNCHANGED <<static, content, resp, req, loc, dl, fs, batchClipPaths, outcome,
                   cleanupLog>>

\* variant: a failed final removal is recorded in the job record
Cleanup_RecordsFailure(j, ok) ==
    /\ At(j, "cleanup")
    /\ fs' = IF ok THEN RmRf(fs, jobDir(j)) ELSE fs
    /\ content' = Restrict(content, fs')
    /\ cleanupLog' = [cleanupLog EXCEPT ![j] =
                         IF ok THEN "Final cleanup complete."
                         ELSE "Final cleanup failed:"]
    /\ jobs' = IF ok THEN jobs ELSE JobsSet(jobs, j, FailedJob(ErrRm))
    /\ setLog' = IF ok THEN setLog
                 ELSE [setLog EXCEPT ![j] = Append(@, "failed")]
    /\ pc' = [pc EXCEPT ![j] = "done"]
    /\ outcome' = [outcome EXCEPT ![j] = "fulfilled"]
    /\ UNCHANGED <<static, resp, req, loc, dl, batchClipPaths, artifact>>

\* variant: the final removal without its own try/catch, its failure propagates
Cleanup_Rethrows(j, ok) ==
    /\ At(j, "cleanup")
    /\ fs' = IF ok THEN RmRf(fs, jobDir(j)) ELSE fs
    /\ content' = Restrict(content, fs')
    /\ cleanupLog' = [cleanupLog EXCEPT ![j] =
                         IF ok THEN "Final cleanup complete." ELSE ""]
    /\ pc' = [pc EXCEPT ![j] = "done"]
    /\ outcome' = [outcome EXCEPT ![j] = IF ok THEN "fulfilled" ELSE "rejected"]
    /\ UNCHANGED <<static, jobs, setLog, resp, req, loc, dl, batchClipPaths,
                   artifact>>

\* the finally block: fs.rm(jobDir, { recursive: true, force: true }) inside its
\* own try/catch, which logs a failure; then the async function returns
Cleanup(j, ok) ==
    /\ At(j, "cleanup")
    /\ fs' = IF ok THEN RmRf(fs, jobDir(j)) ELSE fs
    /\ content' = Restrict(content, fs')
    /\ cleanupLog' = [cleanupLog EXCEPT ![j] =
                         IF ok THEN "Final cleanup complete."
                         ELSE "Final cleanup failed:"]
    /\ pc' = [pc EXCEPT ![j] = "done"]
    /\ outcome' = [outcome EXCEPT ![j] = "fulfilled"]
    /\ UNCHANGED <<static, jobs, setLog, resp, req, loc, dl, batchClipPaths,
                   artifact>>

\* every step of one createAnimation run
createAnimation(j) ==
    \/ \E ok \in BOOLEAN : MkdirJob(j, ok)
    \/ \E ok \in BOOLEAN : MkdirBatch(j, ok)
    \/ \E ok \in BOOLEAN : MkdirDay(j, ok)
    \/ \E t \in DOMAIN dl[j], fetch \in FetchOutcomes, w \in WriteOutcomes :
          TileSettles(j, t, fetch, w)
    \/ StartComposite(j)
    \/ \E ok \in BOOLEAN : Composite(j, ok)
    \/ \E ok \in BOOLEAN : RmDay(j, ok)
    \/ \E ok \in BOOLEAN : Encode(j, ok)
    \/ \E ok \in BOOLEAN : MkdirOut(j, ok)
    \/ \E ok \in BOOLEAN : Stitch(j, ok)
    \/ \E ok \in BOOLEAN : Cleanup(j, ok)

----------------------------------------------------------------------------
(* Specifications *)

NoProbe == [fn |-> "none", args |-> << >>, result |-> << >>]
\* let geePromise = null (0), no promise made, no call returned
NoGee == [geePromise |-> 0, promises |-> << >>, authStarted |-> 0,
          initStarted |-> 0, returned |-> << >>]

Init ==
    /\ service \in Services
    /\ jobs = [j \in JobIds |-> NoJob]
    /\ setLog = [j \in JobIds |-> << >>]
    /\ resp = [j \in JobIds |-> "none"]
    /\ req = [j \in JobIds |-> NoReq]
    /\ pc = [j \in JobIds |-> "idle"]
    /\ loc = [j \in JobIds |-> NoLoc]
    /\ dl = [j \in JobIds |-> NoDownloads]
    /\ fs = {}
    /\ batchClipPaths = [j \in JobIds |-> NoClips]
    /\ artifact = [j \in JobIds |-> NoArtifact]
    /\ outcome = [j \in JobIds |-> "none"]
    /\ cleanupLog = [j \in JobIds |-> ""]
    /\ tz \in Zones
    /\ content = NoContent
    /\ probe = NoProbe
    /\ gee = NoGee

Next ==
    \/ \E j \in SoloIds : POST(j)
    \/ \E j \in SoloIds : createAnimation(j)

Spec == Init /\ [][Next]_vars

\* every await of a run eventually returns or fails
FairSpec == Spec /\ \A j \in JobIds : WF_vars(createAnimation(j))
\* the submissions of two concurrent jobs: one tile, one or two dates
PairRequests ==
    {rq \in ArrayRequests :
        /\ rq.bottomRight = rq.topLeft
        /\ rq.endDay - rq.startDay \in {0, 1}}

\* two submissions accepted by the route, their runs interleaved at every await
PairNext ==
    \/ \E j \in JobIds : \E rq \in PairRequests : PostAccepted(j, rq)
    \/ \E j \in JobIds : createAnimation(j)

PairSpec == Init /\ [][PairNext]_vars

\* the state of the route and of the runs
pipeline == <<jobs, setLog, resp, req, pc, loc, dl, fs, batchClipPaths,
              artifact, outcome, cleanupLog, content>>

\* a call of lonLatToTile, as createAnimation makes for the two corners
CallLonLatToTile(lon, lat, zoom) ==
    /\ probe' = [fn |-> "lonLatToTile", args |-> <<lon, lat, zoom>>,
                 result |-> lonLatToTile(lon, lat, zoom)]
    /\ UNCHANGED <<service, tz, gee, pipeline>>
\* the frame of one (batch, date): sharp creates frameWidth x frameHeight and
\* composites the tile files onto it; blank is the set of placeholder tiles
CallComposite(xs, ys, blank, side) ==
    /\ probe' = [fn |-> "composite", args |-> <<xs, ys, blank, side>>,
                 result |-> [width |-> frameWidth(xs), height |-> frameHeight(ys),
                             placed |-> compositeOperations(xs, ys, blank, side)]]
    /\ UNCHANGED <<service, tz, gee, pipeline>>

ProbeNext ==
    \/ \E lon \in Longitudes, lat \in Latitudes, zoom \in Zooms :
            CallLonLatToTile(lon, lat, zoom)
    \/ \E tl \in TopLefts, bw \in 1..BatchDim, bh \in 1..BatchDim, side \in ImageSides :
            \E blank \in SUBSET (Elems(ArrayFrom(bw, tl.x)) \X Elems(ArrayFrom(bh, tl.y))) :
                CallComposite(ArrayFrom(bw, tl.x), ArrayFrom(bh, tl.y), blank, side)
\* the pure helpers, called with every argument of the sampled sets
ProbeSpec == Init /\ [][ProbeNext]_vars

\* what the executor finds: no GOOGLE_APPLICATION_CREDENTIALS, a key file that
\* cannot be read or parsed, or the keys
KeyFileOutcomes == {"unset", "unreadable", "keys"}

\* new Promise(executor): the executor runs at once; it throws into its own
\* catch block (the promise is rejected) or calls authenticateViaPrivateKey
StartGee(g, keyFile) ==
    [g EXCEPT
        !.geePromise = Len(g.promises) + 1,
        !.promises = Append(@, IF keyFile = "keys" THEN "authenticating"
                               ELSE "rejected"),
        !.authStarted = IF keyFile = "keys" THEN @ + 1 ELSE @,
        !.returned = Append(@, [promise |-> Len(g.promises) + 1,
                                await |-> "pending"])]

\* variant: no singleton check, every call makes a promise of its own
InitializeGee_NoSingleton(keyFile) ==
    /\ Len(gee.returned) < MaxCalls
    /\ gee' = StartGee(gee, keyFile)
    /\ UNCHANGED <<service, tz, probe, pipeline>>

\* initializeGee(): the promise made by an earlier call if there is one, else a
\* new one, kept in geePromise
InitializeGee(keyFile) ==
    /\ Len(gee.returned) < MaxCalls
    /\ gee' = IF gee.geePromise # 0
              THEN [gee EXCEPT !.returned =
                       Append(@, [promise |-> gee.geePromise, await |-> "pending"])]
              ELSE StartGee(gee, keyFile)
    /\ UNCHANGED <<service, tz, probe, pipeline>>

\* the success callback of authenticateViaPrivateKey: ee.initialize is called
AuthSucceeds(p) ==
    /\ p \in DOMAIN gee.promises /\ gee.promises[p] = "authenticating"
    /\ gee' = [gee EXCEPT !.promises[p] = "initializing",
                          !.initStarted = @ + 1]
    /\ UNCHANGED <<service, tz, probe, pipeline>>

\* the error callback of authenticateViaPrivateKey: reject(new Error(err))
AuthFails(p) ==
    /\ p \in DOMAIN gee.promises /\ gee.promises[p] = "authenticating"
    /\ gee' = [gee EXCEPT !.promises[p] = "rejected"]
    /\ UNCHANGED <<service, tz, probe, pipeline>>

\* the success callback of ee.initialize: resolve()
InitSucceeds(p) ==
    /\ p \in DOMAIN gee.promises /\ gee.promises[p] = "initializing"
    /\ gee' = [gee EXCEPT !.promises[p] = "resolved"]
    /\ UNCHANGED <<service, tz, probe, pipeline>>

\* the error callback of ee.initialize: reject(new Error(err))
InitFails(p) ==
    /\ p \in DOMAIN gee.promises /\ gee.promises[p] = "initializing"
    /\ gee' = [gee EXCEPT !.promises[p] = "rejected"]
    /\ UNCHANGED <<service, tz, probe, pipeline>>

\* await initializeGee() in a route handler: it goes on once the promise is
\* resolved and throws into the handler's catch block once it is rejected
AwaitGee(c) ==
    /\ c \in DOMAIN gee.returned /\ gee.returned[c].await = "pending"
    /\ gee.promises[gee.returned[c].promise] \in {"resolved", "rejected"}
    /\ gee' = [gee EXCEPT !.returned[c].await =
                   gee.promises[gee.returned[c].promise]]
    /\ UNCHANGED <<service, tz, probe, pipeline>>

GeeNext ==
    \/ \E keyFile \in KeyFileOutcomes : InitializeGee(keyFile)
    \/ \E p \in 1..MaxCalls : AuthSucceeds(p)
    \/ \E p \in 1..MaxCalls : AuthFails(p)
    \/ \E p \in 1..MaxCalls : InitSucceeds(p)
    \/ \E p \in 1..MaxCalls : InitFails(p)
    \/ \E c \in 1..MaxCalls : AwaitGee(c)

\* the route handlers' calls of initializeGee and the Earth Engine callbacks
GeeSpec == Init /\ [][GeeNext]_vars

----------------------------------------------------------------------------
(* Properties of the job lifecycle *)

Started(j) == jobs[j].status # "absent"
Ended(j) == pc[j] = "done"
TempStorage(j) == {p \in fs : IsPrefix(jobDir(j), p)}
CleanupFailed(j) == cleanupLog[j] = "Final cleanup failed:"
CleanupDone(j) == cleanupLog[j] = "Final cleanup complete."

\* C1: the record of every job id is created with status processing and written
\* exactly once more, to complete or to failed (the second write has happened
\* when the run reaches its finally block); a complete or failed record never
\* changes again.
JobWrittenOnceToTerminal ==
    /\ [](\A j \in JobIds :
            /\ setLog[j] \in {<< >>, <<"processing">>,
                              <<"processing", "complete">>,
                              <<"processing", "failed">>}
            /\ (setLog[j] = << >>) = (jobs[j].status = "absent")
            /\ setLog[j] # << >> => jobs[j].status = setLog[j][Len(setLog[j])]
            /\ pc[j] \in {"cleanup", "done"} => Len(setLog[j]) = 2)
    /\ [][\A j \in JobIds :
            Terminal(jobs[j].status) => jobs'[j] = jobs[j]]_vars

\* C1 witness: a run has ended after the two writes processing, complete
JobWrittenOnceReached ==
    \E j \in JobIds : Ended(j) /\ setLog[j] = <<"processing", "complete">>

\* C2: under fair scheduling of the awaited operations, every started job
\* reaches complete or failed.
StartedJobEnds ==
    \A j \in JobIds :
        (jobs[j].status = "processing") ~> Terminal(jobs[j].status)

\* C2 witness: a job that went through downloads (some rejected) is terminal
StartedJobEndsReached ==
    \E j \in JobIds :
        /\ Terminal(jobs[j].status)
        /\ \E t \in DOMAIN dl[j] : dl[j][t].status = "rejected"

DownloadNeverRejects ==
    \A j \in JobIds :
        pc[j] \in {"download", "composite"} =>
            \A t \in DOMAIN dl[j] :
                dl[j][t] # Pending /\ dl[j][t].reason # ErrWrite =>
                    /\ dl[j][t].status = "fulfilled"
                    /\ imagePath(service, j, loc[j], CurrentDate(j), t) \in fs

\* C5: when compositing of a (batch, date) begins, a tile file exists for every
\* (x, y) of the ranges (rounds in which a file write failed are left aside).
CompositeHasEveryTile ==
    \A j \in JobIds :
        (pc[j] = "composite" /\ \A t \in DOMAIN dl[j] : dl[j][t].reason # ErrWrite)
            => CompositeInputs(j) \subseteq fs

\* C6: a tile fetch failure never turns the job into failed.
FetchFailureNeverFailsJob ==
    \A j \in JobIds :
        ~ /\ jobs[j].status = "failed"
          /\ jobs[j].error = ErrMissingInput
          /\ \E t \in DOMAIN dl[j] : dl[j][t].reason = ErrFetch

Batches(rq) == (0..(numBatchRows(rq) - 1)) \X (0..(numBatchCols(rq) - 1))

\* C7: a failed batch encoding or final stitch ends the job failed with a
\* non-empty message, and a job is never complete without a clip of every batch
\* and a written artifact.
EncodeFailureIsFatal ==
    /\ [][\A j \in JobIds :
            (\/ pc[j] = "encode" /\ pc'[j] = "cleanup"
             \/ pc[j] = "stitch" /\ pc'[j] = "cleanup" /\ ~artifact'[j].exists)
            => /\ jobs'[j].status = "failed"
               /\ jobs'[j].error # ""
               /\ setLog'[j] = <<"processing", "failed">>]_vars
    /\ [](\A j \in JobIds :
            jobs[j].status = "complete" =>
                /\ artifact[j].exists
                /\ service = "batched" =>
                       DOMAIN batchClipPaths[j] = Batches(req[j]))

\* C7 witness: a batched run with a clip already encoded ended failed by ffmpeg
EncodeFailureReached ==
    \E j \in JobIds :
        /\ Ended(j) /\ service = "batched"
        /\ jobs[j] = FailedJob(ErrFfmpeg)
        /\ batchClipPaths[j] # NoClips

\* C8 as stated: whichever stage fails, cleanup included, the run ends with the
\* failure recorded in the job record.
EveryFailureRecorded ==
    \A j \in JobIds :
        (Ended(j) /\ CleanupFailed(j)) => jobs[j].status = "failed"

\* C8 amended: createAnimation never rejects; a failed directory creation,
\* compositing, encoding or stitch is recorded as failed with its message on
\* the step that fails; a failed final cleanup is logged and leaves the record
\* as it is.
RunNeverRejects ==
    /\ [](\A j \in JobIds :
            /\ outcome[j] # "rejected"
            /\ Ended(j) => outcome[j] = "fulfilled" /\ Terminal(jobs[j].status))
    /\ [][\A j \in JobIds :
            /\ (pc[j] \notin {"cleanup", "stitch"} /\ pc'[j] = "cleanup")
                  => jobs'[j].status = "failed" /\ jobs'[j].error # ""
            /\ pc[j] = "cleanup" => jobs'[j] = jobs[j]]_vars

\* C8 witness: a complete job whose final cleanup failed has ended normally
RunNeverRejectsReached ==
    \E j \in JobIds :
        /\ Ended(j) /\ CleanupFailed(j) /\ outcome[j] = "fulfilled"
        /\ jobs[j].status = "complete"

\* the records a caller can hand to jobs.set
Records(j) ==
    {ProcessingJob, CompleteJob(j), FailedJob(ErrFfmpeg)}

\* C9 as stated: a write to a record that is complete or failed does not
\* replace it.
TerminalWriteRefused ==
    \A j \in JobIds :
        Terminal(jobs[j].status) =>
            \A r \in Records(j) : JobsSet(jobs, j, r)[j] = jobs[j]

\* C9 amended: the store takes every write, a write to a terminal record
\* replaces it silently; what keeps terminal records is that no step of the
\* route or of a run calls jobs.set for a job whose record is terminal.
NoWriteToTerminalRecord ==
    /\ [](\A j \in JobIds : \A r \in Records(j) : JobsSet(jobs, j, r)[j] = r)
    /\ [][\A j \in JobIds :
            Terminal(jobs[j].status) => setLog'[j] = setLog[j]]_vars

\* C9 witness: a run has gone on (to its end) after its record became failed
NoWriteToTerminalReached ==
    \E j \in JobIds : Ended(j) /\ jobs[j].status = "failed" /\ CleanupFailed(j)

\* C10: a submission with a malformed bounding box or an end date before its
\* start date creates no job record and starts no run.
InvalidSubmissionRejected ==
    \A j \in JobIds :
        (Started(j) \/ pc[j] # "idle") =>
            ~MalformedBox(req[j]) /\ ~InvertedDates(req[j])

\* C11: when a submission has returned a job id the store holds a record for
\* that id with status processing, complete or failed; the processing record
\* is the first write for the id and is made no later than the run's start, so
\* it is never written over a terminal record.
RecordExistsWhenIdReturned ==
    /\ [](\A j \in JobIds :
            /\ resp[j] = "200" =>
                   jobs[j].status \in {"processing", "complete", "failed"}
            /\ pc[j] # "idle" => setLog[j] # << >> /\ setLog[j][1] = "processing")
    /\ [][\A j \in JobIds :
            (setLog'[j] # setLog[j] /\ jobs'[j].status = "processing")
                => jobs[j].status = "absent" /\ pc[j] = "idle"]_vars

\* C11 witness: the id has just been returned, the run waits at its first await
RecordExistsReached ==
    \E j \in JobIds :
        resp[j] = "200" /\ pc[j] = "mkdirJob" /\ jobs[j] = ProcessingJob

\* C12: a complete record carries the url of its own job id and no error, and
\* the artifact of that id has been written by a final run that succeeded; a
\* failed record carries an error and no url.
TerminalRecordShape ==
    \A j \in JobIds :
        /\ jobs[j].status = "complete" =>
               /\ jobs[j].url = AnimationPath(j)
               /\ jobs[j].error = ""
               /\ artifact[j].exists
               /\ artifact[j].frames > 0
        /\ jobs[j].status = "failed" =>
               /\ jobs[j].error # ""
               /\ jobs[j].url = ""

\* C12 witness: a batched job is complete with its artifact written
TerminalRecordShapeReached ==
    \E j \in JobIds :
        /\ service = "batched" /\ jobs[j] = CompleteJob(j)
        /\ artifact[j].exists /\ pc[j] = "cleanup"

\* the tiles of batch b = <<row, col>>
BatchTiles(rq, b) ==
    Elems(batchXCoords(rq, b[2])) \X Elems(batchYCoords(rq, b[1]))

\* C13: for a tile rectangle at least one tile wide and high the planned
\* batches partition the rectangle: every tile of the rectangle lies in exactly
\* one batch, no batch holds a tile outside it, and every batch is between one
\* and BatchDim tiles wide and high.
BatchesPartitionRectangle ==
    \A j \in JobIds :
        (Started(j) /\ ~MalformedBox(req[j])) =>
            LET rq == req[j]
                full == Elems(fullTileXCoords(rq)) \X Elems(fullTileYCoords(rq))
            IN  /\ \A t \in full :
                        Cardinality({b \in Batches(rq) : t \in BatchTiles(rq, b)}) = 1
                /\ \A b \in Batches(rq) :
                        /\ BatchTiles(rq, b) \subseteq full
                        /\ Len(batchXCoords(rq, b[2])) \in 1..BatchDim
                        /\ Len(batchYCoords(rq, b[1])) \in 1..BatchDim

\* C13 witness: a batched run works on the last batch of a rectangle that
\* needs two batch rows and two batch columns, the last ones narrower
BatchesPartitionReached ==
    \E j \in JobIds :
        /\ service = "batched" /\ pc[j] = "download"
        /\ numBatchCols(req[j]) = 2 /\ numBatchRows(req[j]) = 2
        /\ loc[j].row = 1 /\ loc[j].col = 1
        /\ Len(batchXCoords(req[j], 1)) < BatchDim

\* C14: for start <= end the date enumerator returns the consecutive calendar
\* days from start to end, both included, strictly increasing, without gap or
\* duplicate, as many as the inclusive day count (one when start equals end).
DatesAreConsecutiveDays ==
    \A j \in JobIds :
        (Started(j) /\ req[j].startDay <= req[j].endDay) =>
            Dates(req[j]) =
                ArrayFrom(req[j].endDay - req[j].startDay + 1, req[j].startDay)

\* the step at which ffmpeg reads the frames of the current frame directory
AtFrameEncoder(j) ==
    pc[j] = (IF service = "batched" THEN "encode" ELSE "stitch")

\* C15: frames are produced and encoded in the order of the date sequence:
\* the frame with index N exists only for a position N of the sequence and is
\* the composite of the N-th date, when the encoder starts there is exactly one
\* frame per date, the encoder reads them by increasing index, and every batch
\* clip written holds the date sequence in order.
FramesInDateOrder ==
    \A j \in JobIds :
        Started(j) =>
            LET ds == Dates(req[j])
                dir == frameDir(service, j, loc[j])
            IN  /\ \A p \in TempStorage(j) :
                        IsFrame(p) =>
                            /\ p[Len(p)][2] \in 0..(Len(ds) - 1)
                            /\ content[p] = <<ds[p[Len(p)][2] + 1]>>
                /\ AtFrameEncoder(j) =>
                        /\ FramesIn(fs, dir) =
                               {framePath(service, j, loc[j], n) :
                                    n \in 0..(Len(ds) - 1)}
                        /\ ReadFrames(fs, content, dir, 0) = ds
                /\ \A b \in DOMAIN batchClipPaths[j] :
                        batchClipPath(j, b[1], b[2]) \in fs =>
                            content[batchClipPath(j, b[1], b[2])] = ds

\* C15 witness: the clip of a batch has been encoded from the frames of three
\* dates
FramesInDateOrderReached ==
    \E j \in JobIds :
        /\ service = "batched" /\ Len(Dates(req[j])) > 2
        /\ batchClipPath(j, 0, 0) \in fs
        /\ content[batchClipPath(j, 0, 0)] = Dates(req[j])

\* C16: for every longitude, latitude and zoom, out-of-range ones included, the
\* tile indices computed satisfy 0 <= x < 2^zoom and 0 <= y < 2^zoom.
TileIndexInRange ==
    probe.fn = "lonLatToTile" =>
        /\ 0 <= probe.result.x /\ probe.result.x < Pow2(probe.args[3])
        /\ 0 <= probe.result.y /\ probe.result.y < Pow2(probe.args[3])

\* a step of the run of job j: its position or one of its downloads changes
StepOf(j) == pc'[j] # pc[j] \/ dl'[j] # dl[j]

\* C17: jobs with distinct ids share no temporary storage: their directory
\* trees are disjoint, and every path a step of one job writes or removes lies
\* in that job's own tree, so the other job's tiles, frames and clips stay as
\* they are through every per-date and final cleanup of the first.
JobsShareNoStorage ==
    /\ [](\A j, k \in JobIds : j # k => TempStorage(j) \cap TempStorage(k) = {})
    /\ [][\A j \in JobIds :
            StepOf(j) =>
                /\ (fs' \ fs) \cup (fs \ fs') \subseteq
                       {p \in fs \cup fs' : IsPrefix(jobDir(j), p)}
                /\ \A k \in JobIds \ {j} :
                        /\ TempStorage(k)' = TempStorage(k)
                        /\ Restrict(content', TempStorage(k)) =
                               Restrict(content, TempStorage(k))]_vars

\* C17 witness: one job has removed its tree in its final cleanup while the
\* other job holds a downloaded tile and waits to composite it
JobsShareNoStorageReached ==
    \E j, k \in JobIds :
        /\ j # k /\ CleanupDone(j) /\ pc[j] = "done"
        /\ pc[k] = "composite"
        /\ \E p \in TempStorage(k) : p[Len(p)][1] = "tile"

\* C18: a run writes only the record of its own job id: every step of the run
\* of one job, its failure by an encode or stitch error included, leaves the
\* record of every other job, and the writes made to it, unchanged.
RunWritesOwnRecordOnly ==
    [][\A j \in JobIds :
            StepOf(j) =>
                \A k \in JobIds \ {j} :
                    jobs'[k] = jobs[k] /\ setLog'[k] = setLog[k]]_vars

\* C18 witness: one job has failed by an ffmpeg error while the other, still
\* processing, is in the middle of its run
RunWritesOwnRecordReached ==
    \E j, k \in JobIds :
        /\ j # k /\ jobs[j] = FailedJob(ErrFfmpeg)
        /\ jobs[k] = ProcessingJob /\ pc[k] \in {"download", "composite", "rmDay"}

\* C19: initializeGee is idempotent: over every sequence of calls, calls made
\* while an earlier one is pending included, authentication and initialization
\* are each started at most once, one promise is made, and every call returns
\* that promise.
InitializeGeeIdempotent ==
    /\ gee.authStarted <= 1
    /\ gee.initStarted <= 1
    /\ Len(gee.promises) <= 1
    /\ \A c \in DOMAIN gee.returned : gee.returned[c].promise = gee.geePromise
    /\ \A c, d \in DOMAIN gee.returned :
            gee.returned[c].promise = gee.returned[d].promise

\* C19 witness: a second and a third call have returned while the promise of
\* the first call is still waiting for the authentication
InitializeGeeIdempotentReached ==
    /\ Len(gee.returned) >= 3
    /\ gee.promises = <<"authenticating">>

\* C20: for each (batch, date) the compositing starts only after every tile
\* download of that (batch, date) has settled: while the run waits, a download
\* has been started for every tile of the ranges, a settled download stays as
\* it settled, and the run leaves the wait only for the compositing and only
\* when no download is pending, whether or not one of them has failed.
CompositeAfterEverySettle ==
    /\ [](\A j \in JobIds :
            pc[j] \in {"download", "composite"} =>
                /\ DOMAIN dl[j] = CurrentTiles(j)
                /\ pc[j] = "composite" => \A t \in DOMAIN dl[j] : dl[j][t] # Pending)
    /\ [][\A j \in JobIds :
            pc[j] = "download" =>
                /\ pc'[j] \in {"download", "composite"}
                /\ DOMAIN dl'[j] = DOMAIN dl[j]
                /\ \A t \in DOMAIN dl[j] : dl[j][t] # Pending => dl'[j][t] = dl[j][t]
                /\ pc'[j] = "composite" => \A t \in DOMAIN dl[j] : dl[j][t] # Pending]_vars

\* C20 witness: the compositing starts after one download has rejected and a
\* sibling has fulfilled
CompositeAfterEverySettleReached ==
    \E j \in JobIds :
        /\ pc[j] = "composite"
        /\ \E t, u \in DOMAIN dl[j] :
                dl[j][t].status = "rejected" /\ dl[j][u].status = "fulfilled"

\* the position of batch <<row, col>> in the row-major order of the loops
Rank(rq, row, col) == row * numBatchCols(rq) + col
\* the run is inside the loop body of a batch
InBatch(j) ==
    /\ service = "batched"
    /\ pc[j] \in {"mkdirBatch", "mkdirDay", "download", "composite", "rmDay", "encode"}

\* C21: within one job the batches run one at a time in row-major order: while
\* a batch is fetched, composited or encoded every batch before it has its clip
\* encoded, no later batch has a clip or any file, the downloads in flight are
\* those of the current batch, and the run moves on only from a finished
\* encoding to the batch next in row-major order.
BatchesOneAtATime ==
    /\ [](\A j \in JobIds :
            InBatch(j) =>
                LET rq == req[j]
                    now == Rank(rq, loc[j].row, loc[j].col)
                IN  /\ <<loc[j].row, loc[j].col>> \in Batches(rq)
                    /\ DOMAIN batchClipPaths[j] =
                           {b \in Batches(rq) : Rank(rq, b[1], b[2]) < now}
                    /\ \A b \in Batches(rq) :
                           /\ Rank(rq, b[1], b[2]) < now =>
                                  batchClipPath(j, b[1], b[2]) \in fs
                           /\ Rank(rq, b[1], b[2]) > now =>
                                  \A p \in fs : ~IsPrefix(batchJobDir(j, b[1], b[2]), p)
                    /\ DOMAIN dl[j] \subseteq BatchTiles(rq, <<loc[j].row, loc[j].col>>))
    /\ [][\A j \in JobIds :
            (InBatch(j) /\ <<loc'[j].row, loc'[j].col>> # <<loc[j].row, loc[j].col>>) =>
                /\ pc[j] = "encode"
                /\ batchClipPath(j, loc[j].row, loc[j].col) \in fs'
                /\ Rank(req[j], loc'[j].row, loc'[j].col) =
                       Rank(req[j], loc[j].row, loc[j].col) + 1]_vars

\* C21 witness: the third batch of a two by two grid is being fetched, the
\* clips of the first two are encoded
BatchesOneAtATimeReached ==
    \E j \in JobIds :
        /\ InBatch(j) /\ pc[j] = "download"
        /\ numBatchCols(req[j]) = 2 /\ numBatchRows(req[j]) = 2
        /\ loc[j].row = 1 /\ loc[j].col = 0
        /\ batchClipPath(j, 0, 1) \in fs

Min(a, b) == IF a <= b THEN a ELSE b

\* C22: for a tile rectangle w wide and h high the plan has ceil(w / BatchDim)
\* batch columns and ceil(h / BatchDim) batch rows (the least counts whose
\* batches reach w and h), and batch (r, c) holds, in order, the tiles at the
\* x offsets c*BatchDim up to min(c*BatchDim + BatchDim, w) and the y offsets
\* r*BatchDim up to min(r*BatchDim + BatchDim, h), the upper ends excluded; at
\* the source's dimension a side of 40 tiles gives 3 batches.
PlanCountsAndRanges ==
    /\ Ceil(40, BATCH_GRID_DIMENSION) = 3
    /\ \A j \in JobIds :
        (Started(j) /\ ~MalformedBox(req[j])) =>
            LET rq == req[j]
                w == rq.bottomRight.x - rq.topLeft.x + 1
                h == rq.bottomRight.y - rq.topLeft.y + 1
                cols == numBatchCols(rq)
                rows == numBatchRows(rq)
            IN  /\ (cols - 1) * BatchDim < w /\ w <= cols * BatchDim
                /\ (rows - 1) * BatchDim < h /\ h <= rows * BatchDim
                /\ \A c \in 0..(cols - 1) :
                        batchXCoords(rq, c) =
                            [i \in 1..(Min(c * BatchDim + BatchDim, w) - c * BatchDim) |->
                                rq.topLeft.x + c * BatchDim + (i - 1)]
                /\ \A r \in 0..(rows - 1) :
                        batchYCoords(rq, r) =
                            [i \in 1..(Min(r * BatchDim + BatchDim, h) - r * BatchDim) |->
                                rq.topLeft.y + r * BatchDim + (i - 1)]

\* C22 witness: the clip of batch (0, 1) is encoded; the batch is as high as the
\* batch dimension and, being the last of its row, narrower
PlanCountsAndRangesReached ==
    \E j \in JobIds :
        /\ service = "batched" /\ pc[j] = "encode"
        /\ loc[j].row = 0 /\ loc[j].col = 1
        /\ numBatchRows(req[j]) = 2 /\ numBatchCols(req[j]) = 2
        /\ Len(batchXCoords(req[j], 1)) < BatchDim
        /\ Len(batchYCoords(req[j], 0)) = BatchDim

\* C23: the final stitch puts the clip of batch (r, c) at row r, column c of
\* the output: when the final run starts every batch's clip is an input exactly
\* once, the clip of (r, c) is input number r*cols + c, the hstack of row r
\* takes the inputs r*cols .. r*cols + cols - 1 in this order, the vstack takes
\* the rows in order; the artifact written shows batch (r, c) at cell (r, c).
StitchKeepsLayout ==
    \A j \in JobIds :
        (service = "batched" /\ Started(j)) =>
            LET rq == req[j]
                cols == numBatchCols(rq)
                rows == numBatchRows(rq)
                inputs == Flat(DOMAIN batchClipPaths[j])
                filter == finalComplexFilter(rows, cols)
            IN  /\ pc[j] = "stitch" =>
                    /\ Len(inputs) = Cardinality(Batches(rq))
                    /\ \A b \in Batches(rq) : inputs[b[1] * cols + b[2] + 1] = b
                    /\ \A r \in 0..(rows - 1) :
                          /\ filter.hstack[r + 1].inputs =
                                 [c \in 1..cols |-> r * cols + (c - 1)]
                          /\ filter.vstack.inputs[r + 1] = filter.hstack[r + 1].out
                /\ artifact[j].exists =>
                    /\ DOMAIN artifact[j].grid = Batches(rq)
                    /\ \A b \in Batches(rq) : artifact[j].grid[b] = b

\* C23 witness: the artifact of a two by two grid of batches has been written
StitchKeepsLayoutReached ==
    \E j \in JobIds :
        /\ service = "batched" /\ artifact[j].exists
        /\ numBatchRows(req[j]) = 2 /\ numBatchCols(req[j]) = 2
        /\ artifact[j].grid[<<1, 0>>] = <<1, 0>>

\* the filter the final run of job j is given
FilterOf(j) == finalComplexFilter(numBatchRows(req[j]), numBatchCols(req[j]))

\* C24: when the tile rectangle fits in a single batch the final step passes
\* that batch's clip through: the final run is given no horizontal and no
\* vertical stacking request.
SingleBatchPassesThrough ==
    \A j \in JobIds :
        (service = "batched" /\ pc[j] = "stitch"
            /\ Cardinality(Batches(req[j])) = 1) =>
                StackRequests(FilterOf(j)) = {}

\* C28: for every grid of batches with at least one row and one column each
\* horizontal or vertical stacking request of the final run combines at least
\* two inputs.
StackCombinesTwoOrMore ==
    \A j \in JobIds :
        (service = "batched" /\ pc[j] = "stitch"
            /\ numBatchRows(req[j]) >= 1 /\ numBatchCols(req[j]) >= 1) =>
                \A s \in StackRequests(FilterOf(j)) : s.n >= 2 /\ Len(s.inputs) >= 2

\* C25: the final stitch runs only with a clip for every batch of the grid,
\* all of them holding one frame per date, and an artifact is written and a
\* job set complete only from such clips: with a clip missing or a frame count
\* that differs the job ends failed without an artifact.
StitchNeedsEveryClip ==
    \A j \in JobIds :
        (service = "batched" /\ Started(j)) =>
            LET rq == req[j]
                clips == batchClipPaths[j]
                whole == /\ DOMAIN clips = Batches(rq)
                         /\ \A b \in DOMAIN clips : clips[b] = Len(Dates(rq))
            IN  /\ pc[j] = "stitch" =>
                    /\ whole
                    /\ \A b \in Batches(rq) :
                           /\ batchClipPath(j, b[1], b[2]) \in fs
                           /\ Len(content[batchClipPath(j, b[1], b[2])]) = Len(Dates(rq))
                /\ (artifact[j].exists \/ jobs[j].status = "complete") =>
                    whole /\ Batches(rq) # {} /\ Len(Dates(rq)) > 0
                /\ (pc[j] \in {"cleanup", "done"} /\ ~whole) =>
                    jobs[j].status = "failed" /\ ~artifact[j].exists

\* C25 witness: the final run is about to start with the clips of four batches,
\* three frames each
StitchNeedsEveryClipReached ==
    \E j \in JobIds :
        /\ service = "batched" /\ pc[j] = "stitch"
        /\ Cardinality(DOMAIN batchClipPaths[j]) = 4
        /\ \A b \in DOMAIN batchClipPaths[j] : batchClipPaths[j][b] > 2

IsTile(p) == Len(p) > 0 /\ p[Len(p)][1] = "tile"
\* the per-date directories of job j that hold a tile file
TileDirs(j) == {SubSeq(p, 1, Len(p) - 1) : p \in {q \in TempStorage(j) : IsTile(q)}}

\* C26: at every moment the tile files of at most one (batch, date) exist in a
\* job's temporary storage: tile files exist only in the tile directory of the
\* date being worked on, and none exists when the directory of a date is made
\* for the downloads to start, or when the run is outside the date loop.
TilesOfOneDateAtMost ==
    \A j \in JobIds :
        /\ Cardinality(TileDirs(j)) <= 1
        /\ pc[j] \in {"download", "composite", "rmDay"} =>
               TileDirs(j) \subseteq
                   {dailyTileDir(service, j, loc[j], CurrentDate(j))}
        /\ pc[j] \in {"mkdirJob", "mkdirBatch", "mkdirDay", "encode", "mkdirOut",
                      "stitch"} =>
               TileDirs(j) = {}

\* C26 witness: the tile directory of the second date is about to be made; the
\* first date's frame exists and its tiles are gone
TilesOfOneDateReached ==
    \E j \in JobIds :
        /\ pc[j] = "mkdirDay" /\ loc[j].dateIndex = 1
        /\ framePath(service, j, loc[j], 0) \in fs
        /\ TileDirs(j) = {}

\* two placed images share a pixel
Overlap(a, b) ==
    /\ a.left < b.left + b.side /\ b.left < a.left + a.side
    /\ a.top < b.top + b.side /\ b.top < a.top + a.side

RECURSIVE Area(_)
\* the pixels of a set of placed images, counted image by image
Area(S) ==
    IF S = {} THEN 0
    ELSE LET a == CHOOSE a \in S : TRUE IN a.side * a.side + Area(S \ {a})

\* C27: for a batch of bw x bh tiles the frame is bw*512 wide and bh*512 high
\* whatever tiles are placeholders, tile (x, y) is placed at the offset
\* ((x - batchMinX)*512, (y - batchMinY)*512), every tile lies inside the
\* frame, no two tiles overlap and the tiles cover the whole frame.
FrameGeometry ==
    probe.fn = "composite" =>
        LET xs == probe.args[1]
            ys == probe.args[2]
            f == probe.result
        IN  /\ f.width = Len(xs) * 512 /\ f.height = Len(ys) * 512
            /\ \A x \in Elems(xs), y \in Elems(ys) :
                   \E a \in f.placed :
                       /\ a.tile = <<x, y>>
                       /\ a.left = (x - xs[1]) * 512 /\ a.top = (y - ys[1]) * 512
            /\ \A a \in f.placed :
                   /\ 0 <= a.left /\ a.left + a.side <= f.width
                   /\ 0 <= a.top /\ a.top + a.side <= f.height
            /\ \A a, b \in f.placed : a # b => ~Overlap(a, b)
            /\ Area(f.placed) = f.width * f.height

====
